---- MODULE Spec2Model ----
(***************************************************************************)
(* Model of impact_t_beamline.py: the ImpactTBeamline run orchestrator,    *)
(* its settings accessors, getFort_z_pos, and the two decorators           *)
(* try_except_timeout and block_negative_velocity.                         *)
(*                                                                         *)
(* Python values are modelled as strings; an optional value (None or a     *)
(* value) is the empty sequence or a one-element sequence.  Mappings       *)
(* (dict) are functions whose domain is the set of keys.                   *)
(***************************************************************************)
EXTENDS Integers, Sequences, FiniteSets, TLC

VARIABLES
    self,        \* the ImpactTBeamline instance: its fields, and the contents of gen
    dir_exists,  \* whether self.run_dir exists on disk
    files,       \* names of the files in self.run_dir
    deck,        \* the variables substituted into ImpactT.in (None: no deck written)
    fort26,      \* contents of fort.26 in run_dir: None, or the avgPz column
    pc,          \* position of the current call
    call,        \* the call being executed: decorator, signature of func, args, kwargs
    started,     \* steps of run() entered during the current call, in order
    completed,   \* steps of run() that returned normally during the current call
    func_calls,  \* invocations of the wrapped function during the current call
    z_df,        \* wrapper local of block_negative_velocity: the table it read
    exc,         \* exception raised inside the current call ("" if none)
    proc,        \* how the executable ended in the current call ("" if not launched)
    result,      \* what the current call gave its caller
    df,          \* table read by getFort in getFort_z_pos (rows with z and dist)
    fort_num,    \* argument of getFort_z_pos
    z_pos_list,  \* argument of getFort_z_pos
    z_result     \* value returned by getFort_z_pos: the selected rows with their index

vars == <<self, dir_exists, files, deck, fort26, pc, call, started, completed,
          func_calls, z_df, exc, proc, result, df, fort_num, z_pos_list, z_result>>

runVars == <<self, dir_exists, files, deck, fort26, pc, call, started, completed,
             func_calls, z_df, exc, proc, result>>

zVars == <<df, fort_num, z_pos_list, z_result>>

----------------------------------------------------------------------------
(* Bounds of the model *)

MaxRows == 2        \* rows of an output table
MaxFiles == 2       \* entries of data_files
MaxPositions == 2   \* entries of z_pos_list
MaxZ == 2           \* largest recorded or requested position

----------------------------------------------------------------------------
(* Values *)

None == <<>>
Some(v) == <<v>>

\* dict.update: entries of u replace and extend those of m
Update(m, u) ==
    [k \in (DOMAIN m) \cup (DOMAIN u) |-> IF k \in DOMAIN u THEN u[k] ELSE m[k]]

Restrict(m, S) == [k \in (DOMAIN m) \cap S |-> m[k]]

IsPrefix(s, t) == Len(s) <= Len(t) /\ SubSeq(t, 1, Len(s)) = s

Range(s) == {s[i] : i \in DOMAIN s}

SeqsUpTo(S, n) == UNION {[1..k -> S] : k \in 0..n}

\* names a settings mapping may hold, and the ones the partition rule sends to "distgen"
Keys == {"Bz", "n_particle"}
DistgenKeys == {"n_particle"}
SettingVals == {"10", "20"}

Settings == UNION {[D -> SettingVals] : D \in SUBSET Keys}

\* auxiliary data files: names a caller may list, and those present in DATA_DIR
DataFileNames == {"rfdata1", "rfdata2"}
DataDirFiles == {"rfdata1"}

\* values a caller or a declaration may give as fallback, and the wrapped function's own result
\* and the default a wrapped function may declare for its fallback parameter
FallbackVals == {"A", "B"}
DeclaredDefault == "A"
FuncValue == "F"

PzVals == {-1, 1}
Fort26Tables == SeqsUpTo(PzVals, MaxRows) \ {<<>>}

----------------------------------------------------------------------------
(* Settings accessors *)

\* BeamlineConfiguration.split: the "distgen" bucket and the fallback "original" bucket
split(settings) ==
    [distgen  |-> Restrict(settings, DistgenKeys),
     original |-> Restrict(settings, (DOMAIN settings) \ DistgenKeys)]

\* dict.get(key, default)
get(d, key, default) == IF key \in DOMAIN d THEN d[key] ELSE default

\* variant: the generator is given the "original" bucket
get_distgen_settings_original(settings) ==
    LET settings_combi == split(settings)
    IN  get(settings_combi, "original", settings_combi)

get_distgen_settings(settings) ==
    LET settings_combi == split(settings)
    IN  get(settings_combi, "distgen", settings_combi)

get_ImpactTin_settings(settings) ==
    LET settings_combi == split(settings)
    IN  get(settings_combi, "original", settings_combi)

----------------------------------------------------------------------------
(* The decorators' fallback lookup *)

\* a wrapped function's signature: whether it declares the fallback parameter, and its default
Signatures ==
    {[declared |-> "absent", default |-> None],
     [declared |-> "required", default |-> None]}
    \cup {[declared |-> "default", default |-> Some(DeclaredDefault)]}

\* get_default_args: the parameters of func that have a default, with the default
get_default_args(sig, name) ==
    IF sig.declared = "default" THEN (name :> sig.default[1]) ELSE <<>>

\* variant: the declared defaults are merged over the caller's keywords
fallback_defaults_win(sig, kwargs, name) ==
    LET kwds == Update(kwargs, get_default_args(sig, name))
    IN  IF name \in DOMAIN kwds THEN Some(kwds[name]) ELSE None

\* kwds = get_default_args(func); kwds.update(kwargs); kwds[name] if present, else None
fallback(sig, kwargs, name) ==
    LET kwds == Update(get_default_args(sig, name), kwargs)
    IN  IF name \in DOMAIN kwds THEN Some(kwds[name]) ELSE None

Pending == [kind |-> "pending", value |-> None, exc |-> ""]
Return(v) == [kind |-> "return", value |-> v, exc |-> ""]
Raise(e) == [kind |-> "raise", value |-> None, exc |-> e]

\* variant: CalledProcessError is handled like a timeout
try_except_timeout_swallow(c, e) ==
    IF e \in {"TimeoutExpired", "CalledProcessError"}
    THEN Return(fallback(c.sig, c.kwargs, "timeout_value"))
    ELSE Raise(e)

\* the except clauses of try_except_timeout's wrapper, for exception e raised by func
try_except_timeout_except(c, e) ==
    IF e = "TimeoutExpired"
    THEN Return(fallback(c.sig, c.kwargs, "timeout_value"))
    ELSE Raise(e)

isinstance_ImpactTBeamline(arg) == arg = "self"

any_negative(avgPz) == \E i \in DOMAIN avgPz : avgPz[i] < 0

----------------------------------------------------------------------------
(* run() and its five steps *)

RunOrder ==
    <<"make_run_dir", "makeImpactIn", "makeDist", "populateDataFiles", "callImpactT">>

\* variant: the data files are copied before the distribution is generated
run_next_swapped(step) ==
    CASE step = "make_run_dir" -> "makeImpactIn"
      [] step = "makeImpactIn" -> "populateDataFiles"
      [] step = "populateDataFiles" -> "makeDist"
      [] step = "makeDist" -> "callImpactT"
      [] OTHER -> "run_return"

\* the statement of run() that follows `step`
run_next(step) ==
    CASE step = "make_run_dir" -> "makeImpactIn"
      [] step = "makeImpactIn" -> "makeDist"
      [] step = "makeDist" -> "populateDataFiles"
      [] step = "populateDataFiles" -> "callImpactT"
      [] OTHER -> "run_return"

Enter(step) == pc = step /\ started' = Append(started, step)

Completes(step) ==
    /\ completed' = Append(completed, step)
    /\ pc' = run_next(step)
    /\ exc' = exc

Raises(step, e) ==
    /\ completed' = completed
    /\ pc' = "run_raise"
    /\ exc' = e

----------------------------------------------------------------------------
(* Initial state: a constructed orchestrator and the run directory as found.  *)
(* A behaviour is one call on the orchestrator: run() itself, or a function    *)
(* that calls run() and is decorated with try_except_timeout or with           *)
(* block_negative_velocity.  The directory may not exist yet, or may hold the  *)
(* fort.26 an earlier run of the executable left there.                        *)

NoGen == [is_none |-> TRUE, params |-> <<>>]
FreshGen == [is_none |-> FALSE, params |-> <<>>]

DataFilesChoices ==
    {[is_none |-> TRUE, list |-> <<>>]}
    \cup {[is_none |-> FALSE, list |-> l] : l \in SeqsUpTo(DataFileNames, MaxFiles)}

\* __init__: the fields of the instance
Instances ==
    [settings : Settings,
     impact_file : {"template"},
     gen : {NoGen, FreshGen},
     timeout : {None, Some("T")},
     num_process : {"1"},
     impact_exe_path : {"IMPACT_EXE_PATH"},
     run_dir : {"run_dir"},
     data_files : DataFilesChoices,
     has_particle_id : {TRUE}]

NoCall == [decorator |-> "none", sig |-> [declared |-> "absent", default |-> None],
           args |-> <<>>, kwargs |-> <<>>, mode |-> "omitted"]

InitRun ==
    /\ self \in Instances
    /\ dir_exists \in BOOLEAN
    /\ fort26 \in IF dir_exists THEN {None} \cup {Some(t) : t \in Fort26Tables} ELSE {None}
    /\ files = IF fort26 = None THEN {} ELSE {"fort.26"}
    /\ deck = None
    /\ pc = "idle"
    /\ call = NoCall
    /\ started = <<>>
    /\ completed = <<>>
    /\ func_calls = 0
    /\ z_df = None
    /\ exc = ""
    /\ proc = ""
    /\ result = Pending

Init ==
    /\ InitRun
    /\ df = <<>> /\ fort_num = 18 /\ z_pos_list = <<>> /\ z_result = None

----------------------------------------------------------------------------
(* Calls *)

\* one call of a decorated func: the orchestrator passed positionally or as the keyword
\* "beamline" (bl), the fallback value v omitted, passed by keyword or passed positionally (m)
Shape(decorator, name, sig, bl, m, v) ==
    [decorator |-> decorator,
     sig |-> sig,
     args |-> (IF bl = "positional" THEN <<"self">> ELSE <<>>)
              \o (IF m = "positional" THEN <<v>> ELSE <<>>),
     kwargs |-> Update(IF bl = "keyword" THEN [beamline |-> "self"] ELSE <<>>,
                       IF m = "keyword" THEN (name :> v) ELSE <<>>),
     mode |-> m]

\* the calls Python binds without a TypeError
Bindable ==
    {p \in [sig : Signatures, bl : {"positional", "keyword"},
            m : {"omitted", "keyword", "positional"}, v : FallbackVals] :
        /\ p.sig.declared = "absent" => p.m = "omitted"
        /\ p.sig.declared = "required" => p.m # "omitted"
        /\ p.m = "positional" => p.bl = "positional"}

CallShapes(decorator, name) ==
    {Shape(decorator, name, p.sig, p.bl, p.m, p.v) : p \in Bindable}

BeginCall(c) ==
    /\ pc = "idle"
    /\ call' = c
    /\ started' = <<>>
    /\ completed' = <<>>
    /\ z_df' = None
    /\ exc' = ""
    /\ proc' = ""
    /\ result' = Pending

\* beamline.run() called directly
Call_run ==
    /\ BeginCall(NoCall)
    /\ pc' = "make_run_dir"
    /\ func_calls' = 0
    /\ UNCHANGED <<self, dir_exists, files, deck, fort26>>
    /\ UNCHANGED zVars

\* try_except_timeout's wrapper: enters the try block and calls func
Call_try_except_timeout ==
    \E c \in CallShapes("try_except_timeout", "timeout_value") :
        /\ BeginCall(c)
        /\ pc' = "make_run_dir"
        /\ func_calls' = 1
        /\ UNCHANGED <<self, dir_exists, files, deck, fort26>>
        /\ UNCHANGED zVars

\* block_negative_velocity's wrapper is entered
Call_block_negative_velocity ==
    \E c \in CallShapes("block_negative_velocity", "negative_v_value") :
        /\ BeginCall(c)
        /\ pc' = "wrapper_getFort"
        /\ func_calls' = 0
        /\ UNCHANGED <<self, dir_exists, files, deck, fort26>>
        /\ UNCHANGED zVars

\* block_negative_velocity's wrapper: finds the orchestrator among args, reads fort.26
wrapper_getFort ==
    /\ pc = "wrapper_getFort"
    /\ LET myclass_args == SelectSeq(call.args, isinstance_ImpactTBeamline)
       IN  IF myclass_args = <<>>
           THEN /\ exc' = "IndexError"
                /\ result' = Raise("IndexError")
                /\ pc' = "raised"
                /\ z_df' = z_df
           ELSE IF fort26 = None
           THEN /\ exc' = "OSError"
                /\ result' = Raise("OSError")
                /\ pc' = "raised"
                /\ z_df' = z_df
           ELSE /\ z_df' = fort26
                /\ pc' = "wrapper_check"
                /\ UNCHANGED <<exc, result>>
    /\ UNCHANGED <<self, dir_exists, files, deck, fort26, call, started, completed,
                   func_calls, proc>>
    /\ UNCHANGED zVars

\* np.any(z_df.avgPz < 0)
guard_blocks(avgPz) == any_negative(avgPz)

\* block_negative_velocity's wrapper: returns the fallback, or calls func
wrapper_check ==
    /\ pc = "wrapper_check"
    /\ IF guard_blocks(z_df[1])
       THEN /\ result' = Return(fallback(call.sig, call.kwargs, "negative_v_value"))
            /\ pc' = "returned"
            /\ func_calls' = func_calls
       ELSE /\ func_calls' = func_calls + 1
            /\ pc' = "make_run_dir"
            /\ result' = result
    /\ UNCHANGED <<self, dir_exists, files, deck, fort26, call, started, completed,
                   z_df, exc, proc>>
    /\ UNCHANGED zVars

----------------------------------------------------------------------------
(* The steps of run() *)

\* make_run_dir: os.makedirs unless the directory exists; makedirs may fail
make_run_dir ==
    /\ Enter("make_run_dir")
    /\ \/ /\ dir_exists' = TRUE
          /\ Completes("make_run_dir")
       \/ /\ ~dir_exists
          /\ dir_exists' = FALSE
          /\ Raises("make_run_dir", "OSError")
    /\ UNCHANGED <<self, files, deck, fort26, call, func_calls, z_df, proc, result>>
    /\ UNCHANGED zVars

\* makeImpactIn: renders the template with get_ImpactTin_settings() and writes ImpactT.in
makeImpactIn ==
    /\ Enter("makeImpactIn")
    /\ \/ /\ deck' = Some(get_ImpactTin_settings(self.settings))
          /\ files' = files \cup {"ImpactT.in"}
          /\ Completes("makeImpactIn")
       \/ /\ UNCHANGED <<deck, files>>
          /\ Raises("makeImpactIn", "OSError")
    /\ UNCHANGED <<self, dir_exists, fort26, call, func_calls, z_df, proc, result>>
    /\ UNCHANGED zVars

\* variant: every setting, not only the distgen bucket, is written into the generator
makeDist_gen_all_settings(gen, settings) ==
    IF gen.is_none THEN gen ELSE [gen EXCEPT !.params = Update(@, settings)]

\* makeDist, lines 141-145: self.gen[key] = val for each distgen setting
makeDist_gen(gen, settings) ==
    IF gen.is_none
    THEN gen
    ELSE [gen EXCEPT !.params = Update(@, get_distgen_settings(settings))]

\* variant: the distribution file is written whether or not there is a generator
makeDist_files_always(gen, fs) == fs \cup {"partcl.data"}

\* makeDist, lines 146-148: the generated particles are written to partcl.data
makeDist_files(gen, fs) ==
    IF gen.is_none THEN fs ELSE fs \cup {"partcl.data"}

\* makeDist: no-op without a generator; gen.run() or the write may fail after gen was set
makeDist ==
    /\ Enter("makeDist")
    /\ self' = [self EXCEPT !.gen = makeDist_gen(self.gen, self.settings)]
    /\ \/ /\ files' = makeDist_files(self.gen, files)
          /\ Completes("makeDist")
       \/ /\ ~self.gen.is_none
          /\ files' = files
          /\ Raises("makeDist", "GeneratorError")
    /\ UNCHANGED <<dir_exists, deck, fort26, call, func_calls, z_df, proc, result>>
    /\ UNCHANGED zVars

RECURSIVE copy_loop(_, _, _)
\* the loop of populateDataFiles from entry i on: shutil.copy fails on a file DATA_DIR lacks
copy_loop(list, i, fs) ==
    IF i > Len(list)
    THEN [files |-> fs, exc |-> ""]
    ELSE IF list[i] \notin DataDirFiles
    THEN [files |-> fs, exc |-> "FileNotFoundError"]
    ELSE copy_loop(list, i + 1, fs \cup {list[i]})

\* populateDataFiles: iterating over None raises TypeError
populate(data_files, fs) ==
    IF data_files.is_none
    THEN [files |-> fs, exc |-> "TypeError"]
    ELSE copy_loop(data_files.list, 1, fs)

populateDataFiles ==
    /\ Enter("populateDataFiles")
    /\ LET r == populate(self.data_files, files)
       IN  /\ files' = r.files
           /\ IF r.exc = ""
              THEN Completes("populateDataFiles")
              ELSE Raises("populateDataFiles", r.exc)
    /\ UNCHANGED <<self, dir_exists, deck, fort26, call, func_calls, z_df, proc, result>>
    /\ UNCHANGED zVars

\* how the launched executable can end: a timeout only when self.timeout is set
ProcessOutcomes(timeout) ==
    {"exit 0", "exit 1"} \cup (IF timeout = None THEN {} ELSE {"timeout"})

\* subprocess.check_call: the exception for an outcome ("" for none)
check_call(outcome) ==
    CASE outcome = "exit 0" -> ""
      [] outcome = "timeout" -> "TimeoutExpired"
      [] OTHER -> "CalledProcessError"

\* callImpactT: the shell creates output.txt; the executable writes fort.26, or not if it
\* ended early
callImpactT ==
    /\ Enter("callImpactT")
    /\ \E outcome \in ProcessOutcomes(self.timeout) :
         /\ proc' = outcome
         /\ \/ \E t \in Fort26Tables : fort26' = Some(t)
            \/ outcome # "exit 0" /\ fort26' = fort26
         /\ files' = files \cup {"output.txt"}
                     \cup (IF fort26' = None THEN {} ELSE {"fort.26"})
         /\ IF check_call(outcome) = ""
            THEN Completes("callImpactT")
            ELSE Raises("callImpactT", check_call(outcome))
    /\ UNCHANGED <<self, dir_exists, deck, call, func_calls, z_df, result>>
    /\ UNCHANGED zVars

\* run() returned: run() itself gives None, a decorated func gives its own value
run_return ==
    /\ pc = "run_return"
    /\ result' = Return(IF call.decorator = "none" THEN None ELSE Some(FuncValue))
    /\ pc' = "returned"
    /\ UNCHANGED <<self, dir_exists, files, deck, fort26, call, started, completed,
                   func_calls, z_df, exc, proc>>
    /\ UNCHANGED zVars

\* an exception leaves run(): try_except_timeout's except clauses, or it propagates
run_raise ==
    /\ pc = "run_raise"
    /\ result' = IF call.decorator = "try_except_timeout"
                 THEN try_except_timeout_except(call, exc)
                 ELSE Raise(exc)
    /\ pc' = IF result'.kind = "return" THEN "returned" ELSE "raised"
    /\ UNCHANGED <<self, dir_exists, files, deck, fort26, call, started, completed,
                   func_calls, z_df, exc, proc>>
    /\ UNCHANGED zVars

Next ==
    \/ Call_run
    \/ Call_try_except_timeout
    \/ Call_block_negative_velocity
    \/ wrapper_getFort
    \/ wrapper_check
    \/ make_run_dir
    \/ makeImpactIn
    \/ makeDist
    \/ populateDataFiles
    \/ callImpactT
    \/ run_return
    \/ run_raise

Spec == Init /\ [][Next]_vars

----------------------------------------------------------------------------
(* getFort_z_pos *)

FortNums == {18, 24}
Positions == 0..MaxZ

\* a parsed output table: rows in file order, each with its recorded "z" and "dist"
Rows == [z : Positions, dist : Positions]
Tables == SeqsUpTo(Rows, MaxRows) \ {<<>>}

abs(x) == IF x < 0 THEN -x ELSE x

\* variant: the last smallest entry
argmin_last(s) ==
    (CHOOSE i \in DOMAIN s : \A j \in DOMAIN s : s[i] < s[j] \/ (s[i] = s[j] /\ j <= i)) - 1

\* np.argmin: the 0-based position of the first smallest entry
argmin(s) ==
    (CHOOSE i \in DOMAIN s : \A j \in DOMAIN s : s[i] < s[j] \/ (s[i] = s[j] /\ i <= j)) - 1

\* lines 165-168: fort 18 uses dist instead of z
position_field(n) == IF n = 18 THEN "dist" ELSE "z"

\* df.iloc[k]: the row at 0-based position k, with that position as its label
iloc(table, k) == [index |-> k, row |-> table[k + 1]]

\* lines 170-174: one selected row per requested position, in request order
select_rows(table, n, positions) ==
    LET z == [i \in DOMAIN table |-> table[i][position_field(n)]]
    IN  [k \in DOMAIN positions |->
            iloc(table, argmin([i \in DOMAIN z |-> abs(z[i] - positions[k])]))]

getFort_z_pos ==
    /\ z_result = None
    /\ \E positions \in SeqsUpTo(Positions, MaxPositions) :
         /\ z_pos_list' = positions
         /\ z_result' = Some(select_rows(df, fort_num, positions))
    /\ UNCHANGED <<df, fort_num>>
    /\ UNCHANGED runVars

\* the orchestrator is idle; fort.<fort_num> in run_dir holds the table df
InitZ ==
    /\ InitRun
    /\ self.settings = <<>> /\ self.gen = NoGen /\ self.timeout = None
    /\ self.data_files.is_none /\ dir_exists /\ fort26 = None
    /\ df \in Tables
    /\ fort_num \in FortNums
    /\ z_pos_list = <<>>
    /\ z_result = None

NextZ == getFort_z_pos

SpecZ == InitZ /\ [][NextZ]_vars

----------------------------------------------------------------------------
(* Properties *)

Steps == Range(RunOrder)
Finished == pc \in {"returned", "raised"}

\* the fallback value the caller passed, if any
Supplied(c, name) ==
    CASE c.mode = "keyword" -> Some(c.kwargs[name])
      [] c.mode = "positional" -> Some(c.args[Len(c.args)])
      [] OTHER -> None

\* C1: run() enters its steps in the order make_run_dir, makeImpactIn, makeDist,
\* populateDataFiles, callImpactT; a step is entered only when every earlier step has
\* completed; once a step has raised no further step is entered; and what the completed
\* steps created (the directory, ImpactT.in, partcl.data, the copied data files) is on
\* disk in every later state, also after a later step has raised.
C1_FixedOrderNoRollback ==
    /\ IsPrefix(started, RunOrder)
    /\ IsPrefix(completed, started)
    /\ Len(started) <= Len(completed) + 1
    /\ pc \in Steps => started = completed /\ pc = RunOrder[Len(completed) + 1]
    /\ Len(started) = Len(completed) + 1 => pc \notin Steps /\ exc # ""
    /\ "make_run_dir" \in Range(completed) => dir_exists
    /\ "makeImpactIn" \in Range(completed) => "ImpactT.in" \in files /\ deck # None
    /\ "makeDist" \in Range(completed) /\ ~self.gen.is_none => "partcl.data" \in files
    /\ "populateDataFiles" \in Range(completed) => Range(self.data_files.list) \subseteq files

\* step 3 raised after steps 1 and 2 completed: the directory and the deck are still there
C1_Witness ==
    /\ pc = "raised"
    /\ exc = "GeneratorError"
    /\ started = <<"make_run_dir", "makeImpactIn", "makeDist">>
    /\ completed = <<"make_run_dir", "makeImpactIn">>
    /\ dir_exists /\ "ImpactT.in" \in files

\* C2: when func raises subprocess.TimeoutExpired inside a try_except_timeout wrapper, the
\* call returns and does not raise; it returns the timeout_value the caller passed by
\* keyword, else (nothing passed) the default func declares, and None when func declares
\* no timeout_value and none is passed.
C2_TimeoutReturnsConfigured ==
    (call.decorator = "try_except_timeout" /\ exc = "TimeoutExpired" /\ Finished)
    => /\ result.kind = "return"
       /\ call.mode = "keyword" => result.value = Some(call.kwargs["timeout_value"])
       /\ call.mode = "omitted" /\ call.sig.declared = "default"
            => result.value = call.sig.default
       /\ call.mode = "omitted" /\ call.sig.declared = "absent" => result.value = None

\* a timed-out call that returned the caller's keyword value, not the declared default
C2_Witness ==
    /\ call.decorator = "try_except_timeout"
    /\ exc = "TimeoutExpired" /\ proc = "timeout"
    /\ pc = "returned"
    /\ call.mode = "keyword" /\ call.sig.declared = "default"
    /\ result = Return(Some("B"))

\* the table the guard decides on is the one in run_dir when the call is made: only the
\* executable rewrites fort.26, so it is still there while the executable has not run
GuardCase ==
    /\ call.decorator = "block_negative_velocity"
    /\ Finished
    /\ proc = ""
    /\ fort26 # None
    /\ any_negative(fort26[1])

\* C3: a block_negative_velocity call that has the orchestrator among its arguments
\* (positional or keyword) and finds a negative avgPz in fort.26 returns the configured
\* negative_v_value (None if none is declared or passed) and never invokes func; func is
\* invoked only after fort.26 was read.
C3_GuardShortCircuits ==
    /\ GuardCase
       => /\ result.kind = "return"
          /\ func_calls = 0
          /\ call.mode = "keyword" => result.value = Some(call.kwargs["negative_v_value"])
          /\ call.mode = "omitted" /\ call.sig.declared = "default"
               => result.value = call.sig.default
          /\ call.mode = "omitted" /\ call.sig.declared = "absent" => result.value = None
    /\ call.decorator = "block_negative_velocity" /\ func_calls > 0 => z_df # None

\* C4: a non-zero exit is never turned into a value: callImpactT raises CalledProcessError
\* on a non-zero exit and TimeoutExpired on a timeout, and whatever the decoration, a call
\* whose executable exited non-zero ends by raising CalledProcessError to its caller.
C4_NonZeroExitRaises ==
    /\ proc = "exit 1" => exc = "CalledProcessError"
    /\ proc = "timeout" => exc = "TimeoutExpired"
    /\ proc = "exit 0" => exc = ""
    /\ proc = "exit 1" /\ Finished => result = Raise("CalledProcessError")

\* a try_except_timeout call whose executable exited non-zero has raised
C4_Witness ==
    /\ call.decorator = "try_except_timeout"
    /\ call.sig.declared = "default"
    /\ proc = "exit 1"
    /\ pc = "raised"
    /\ result = Raise("CalledProcessError")

\* C5: without a generator makeDist changes nothing: no field of the orchestrator, no file
\* of run_dir, no deck; it completes and run() goes on to populateDataFiles; partcl.data
\* is never created.
C5_MakeDistNoOp ==
    /\ [](self.gen.is_none => "partcl.data" \notin files)
    /\ [][(pc = "makeDist" /\ self.gen.is_none)
            => /\ UNCHANGED <<self, dir_exists, files, deck, fort26, exc, result>>
               /\ pc' = "populateDataFiles"
               /\ completed' = Append(completed, "makeDist")]_vars

\* makeDist has completed on an orchestrator without generator, after the deck was written
C5_Witness ==
    /\ self.gen.is_none
    /\ pc = "populateDataFiles"
    /\ completed = <<"make_run_dir", "makeImpactIn", "makeDist">>
    /\ files = {"ImpactT.in"}

\* C6: getFort_z_pos returns one row per requested position, in request order; each is
\* the row of the table whose position field ("dist" for file 18, "z" otherwise) is
\* nearest to the request, the first such row when several are equally near.
C6_NearestRowFirstTie ==
    z_result # None =>
        LET r == z_result[1]
            f == IF fort_num = 18 THEN "dist" ELSE "z"
        IN  /\ Len(r) = Len(z_pos_list)
            /\ \A k \in DOMAIN r :
                 LET i == r[k].index + 1
                 IN  /\ i \in DOMAIN df
                     /\ r[k].row = df[i]
                     /\ \A j \in DOMAIN df :
                          /\ abs(df[i][f] - z_pos_list[k]) <= abs(df[j][f] - z_pos_list[k])
                          /\ j < i => abs(df[i][f] - z_pos_list[k])
                                        < abs(df[j][f] - z_pos_list[k])

\* file 18, two rows equally near in "dist" (the first is returned) while "z" alone would
\* have picked the second
C6_Witness ==
    /\ fort_num = 18
    /\ df = <<[z |-> 0, dist |-> 0], [z |-> 1, dist |-> 2]>>
    /\ z_pos_list = <<1, 2>>
    /\ z_result = Some(<<[index |-> 0, row |-> df[1]], [index |-> 1, row |-> df[2]]>>)

\* C7 as stated: no step changes a field of the configuration or the contents of an
\* object it holds.
C7_ConfigurationImmutable == [][self' = self]_vars

\* C7 amended: no step reassigns a field, and the contents of the settings, the template
\* and the data-file list never change; the generator is the exception: makeDist, and
\* only makeDist, writes each distgen setting into it and leaves its other entries alone.
C7_OnlyGeneratorUpdated ==
    [][/\ [self' EXCEPT !.gen = self.gen] = self
       /\ self'.gen.is_none = self.gen.is_none
       /\ self'.gen # self.gen => pc = "makeDist"
       /\ LET old == self.gen.params
              new == self'.gen.params
              D == (DOMAIN self.settings) \cap DistgenKeys
          IN  pc = "makeDist" /\ ~self.gen.is_none
              => /\ DOMAIN new = (DOMAIN old) \cup D
                 /\ \A k \in DOMAIN new :
                      new[k] = IF k \in D THEN self.settings[k] ELSE old[k]]_vars

\* run() has returned and the generator now holds the distgen setting it lacked
C7_Witness ==
    /\ pc = "returned"
    /\ call.decorator = "none"
    /\ Len(completed) = Len(RunOrder)
    /\ self.settings = [Bz |-> "10", n_particle |-> "20"]
    /\ self.gen = [is_none |-> FALSE, params |-> [n_particle |-> "20"]]

\* C8: the two accessors split the settings disjointly: no key comes back from both; a
\* key of the distgen bucket comes back from get_distgen_settings only; every other key
\* comes back from get_ImpactTin_settings only.  The deck written by makeImpactIn and the
\* generator set by makeDist hold exactly these keys.
C8_AccessorsPartition ==
    LET S == DOMAIN self.settings
        imp == DOMAIN get_ImpactTin_settings(self.settings)
        dis == DOMAIN get_distgen_settings(self.settings)
    IN  /\ imp \cap dis = {}
        /\ \A k \in S : IF k \in DistgenKeys
                        THEN k \in dis /\ k \notin imp
                        ELSE k \in imp /\ k \notin dis
        /\ deck # None => DOMAIN deck[1] = S \ DistgenKeys
        /\ "makeDist" \in Range(completed) /\ ~self.gen.is_none
             => DOMAIN self.gen.params = S \cap DistgenKeys

\* both accessors have been used on settings holding a key of each bucket
C8_Witness ==
    /\ DOMAIN self.settings = {"Bz", "n_particle"}
    /\ "makeDist" \in Range(completed)
    /\ deck # None /\ DOMAIN deck[1] = {"Bz"}
    /\ ~self.gen.is_none /\ DOMAIN self.gen.params = {"n_particle"}

\* C9: in both decorators, when the caller passes the fallback value, by keyword or
\* positionally, and the timeout (resp. a negative avgPz in the table read) occurs, the
\* call returns the caller's value.
C9_CallerValueWins ==
    LET timed_out == call.decorator = "try_except_timeout" /\ exc = "TimeoutExpired"
        blocked == /\ call.decorator = "block_negative_velocity"
                   /\ z_df # None /\ any_negative(z_df[1])
        name == IF call.decorator = "try_except_timeout"
                THEN "timeout_value" ELSE "negative_v_value"
    IN  (Finished /\ (timed_out \/ blocked) /\ call.mode # "omitted")
        => result = Return(Supplied(call, name))

\* C10: with data_files left at None, populateDataFiles completes, so a run() whose
\* first three steps succeeded enters callImpactT.
C10_DefaultDataFilesReachExecutable ==
    (self.data_files.is_none /\ Len(completed) >= 3 /\ pc \notin Steps)
    => /\ "populateDataFiles" \in Range(completed)
       /\ "callImpactT" \in Range(started)

====
